---- MODULE Spec2Model ----
(***************************************************************************)
(* A model of the connection state machine of _examples/advanced/ws/conn.go *)
(* (type Conn): the reader loop with its handshake and pre-ack queue,       *)
(* handleMessage, the connect and disconnect exchanges, Write, Ask and      *)
(* Close, run by one reader goroutine and a few caller goroutines per Conn. *)
(* Every step of the model is one atomic access of the code to the state    *)
(* the goroutines share (an atomic word, a map under its lock, the socket). *)
(***************************************************************************)
EXTENDS Integers, Sequences, FiniteSets, TLC

(***************************************************************************)
(* Bounds of the model.                                                    *)
(***************************************************************************)
\* frames the reader may read from the socket
MaxFrames == 3
\* calls the caller goroutines may start
MaxCalls == 2
\* the values time.Now().UnixNano() takes: 1..MaxClock
MaxClock == 2

(***************************************************************************)
(* The two ends of a link, their goroutines, and the names in play.         *)
(***************************************************************************)
Conns == {"client", "server"}
Tasks == {"t1", "t2"}
Reader == "rd"
Threads == Tasks \cup {Reader}

\* namespaces a message may name; Declared is c.namespaces
NSNames == {"chat", "news", "admin"}
Declared == {"chat", "news"}
RoomNames == {"r1"}

OnNamespaceConnect == "_OnNamespaceConnect"
OnNamespaceConnected == "_OnNamespaceConnected"
OnNamespaceDisconnect == "_OnNamespaceDisconnect"
OnRoomJoin == "_OnRoomJoin"
OnRoomLeave == "_OnRoomLeave"
OnRoomLeft == "_OnRoomLeft"
UserEvent == "hello"

\* Conn.IsClient: c.server == nil
IsClient(c) == c = "client"

\* the wait token Ask makes of the clock: strconv.FormatInt(now, 10), with
\* "client_" in front on the client
GenWait(c, n) == (IF IsClient(c) THEN "client_" ELSE "") \o ToString(n)

(***************************************************************************)
(* Messages.  seq is the arrival number of an inbound frame (0 for a        *)
(* message made locally); it is not a field of the code's Message.          *)
(***************************************************************************)
Msg(ns, room, ev, wait, noop, err, local, forced, seq) ==
    [Namespace |-> ns, Room |-> room, Event |-> ev, wait |-> wait,
     isNoOp |-> noop, Err |-> err, IsLocal |-> local, IsForced |-> forced,
     seq |-> seq]

NoMsg == Msg("", "", "", "", FALSE, "nil", FALSE, FALSE, 0)

\* Message.isConnect, isDisconnect, isRoomJoin, isRoomLeft: predicates over Event
isConnect(m) == m.Event = OnNamespaceConnect
isDisconnect(m) == m.Event = OnNamespaceDisconnect
isRoomJoin(m) == m.Event = OnRoomJoin
isRoomLeft(m) == m.Event = OnRoomLeft

(***************************************************************************)
(* Frames: "ack" followed by a suffix (none, "_ok", or an id), a payload    *)
(* deserializeMessage finds invalid, or a serialized Message.               *)
(***************************************************************************)
Frame(kind, suffix, m) == [kind |-> kind, suffix |-> suffix, m |-> m]
NoFrame == Frame("", "", NoMsg)
AckSuffixes == {"", "c1", "c2"}

VARIABLES
    active,               \* the Conns that run in this behaviour
    id,                   \* c.id
    acknowledged,         \* *c.acknowledged
    closed,               \* *c.closed
    connectedNamespaces,  \* c.connectedNamespaces: namespace -> NSConn (0: none)
    nsMu,                 \* c.connectedNamespacesMutex: "" or the writer holding it
    waitingMessages,      \* c.waitingMessages: wait token -> channel
    closeChClosed,        \* how many times closeCh was closed
    netClosed,            \* how many times the net connection was closed
    nsconns,              \* the NSConn objects made so far, by their number
    nextCh,               \* the next channel Ask makes
    th,                   \* each goroutine: its place, its call stack, its locals
    queue,                \* the reader's queue of frames read before the ack
    nread,                \* frames read so far
    calls,                \* calls started so far
    net,                  \* the frames written to the peer's socket and not read yet
    hist                  \* what happened so far, for the properties only

vars == <<active, id, acknowledged, closed, connectedNamespaces, nsMu,
          waitingMessages, closeChClosed, netClosed, nsconns, nextCh,
          th, queue, nread, calls, net, hist>>

\* groups, for UNCHANGED
flagVars == <<id, acknowledged, closed, closeChClosed, netClosed>>
nsVars == <<connectedNamespaces, nsMu, nsconns>>
askVars == <<waitingMessages, nextCh>>
envVars == <<active, nread, calls, net>>

Set(f, c, v) == [f EXCEPT ![c] = v]

\* maps: the empty one, m[k] = v, delete(m, k)
EmptyMap == [k \in {} |-> 0]
Put(m, k, v) == [x \in DOMAIN m \cup {k} |-> IF x = k THEN v ELSE m[x]]
Delete(m, k) == [x \in DOMAIN m \ {k} |-> m[x]]

(***************************************************************************)
(* A goroutine.  pc is its place in the code, stack the places its calls    *)
(* return to; the rest are the locals of the functions it is in.            *)
(***************************************************************************)
NewThread ==
    [pc |-> "idle", stack |-> <<>>, op |-> "",
     msg |-> NoMsg,      \* Write's msg
     wret |-> FALSE,     \* what Write returned
     wt |-> 0,           \* WriteText calls of the running top-level call
     fires |-> 0,        \* handler calls of the running top-level call
     regs |-> 0,         \* waiting entries registered by the running top-level call
     ins |-> 0,          \* NSConns put in connectedNamespaces by the running top-level call
     ctx |-> "live",     \* the context: live, done (cancelled), expired (deadline long past)
     amsg |-> NoMsg,     \* Ask's msg
     ach |-> 0,          \* Ask's ch
     rcv |-> NoMsg,      \* Ask's receive
     aerr |-> "nil",     \* the error Ask returned
     namespace |-> "",   \* askConnect's namespace
     ns |-> 0,           \* the local ns (an NSConn, 0: nil)
     wns |-> -1,         \* Write's ns (-1: not looked up, 0: nil)
     wroom |-> "none",   \* Write's room lookup: none (not looked up), in, out
     found |-> 0,        \* what connectedNamespaces held when Connect looked
     cerr |-> "nil",     \* the error Connect returned
     lock |-> FALSE,     \* askDisconnect's lock
     derr |-> "nil",     \* the error askDisconnect or DisconnectAll returned
     cur |-> NoMsg,      \* handleMessage's msg
     ok |-> FALSE,       \* handleMessage's ok
     ch |-> 0,           \* handleMessage's ch
     hret |-> TRUE,      \* what handleMessage returned
     herr |-> "nil",     \* handleMessage's err
     frame |-> NoFrame,  \* startReader's b
     qi |-> 0]           \* handleQueue's place in the queue

L(c, t) == th[c][t]
SetTh(c, t, r) == th' = [th EXCEPT ![c][t] = r]
At(c, t, label) == c \in active /\ th[c][t].pc = label

Call(r, callee, retTo) == [r EXCEPT !.pc = callee, !.stack = <<retTo>> \o r.stack]
Ret(r) == [r EXCEPT !.pc = Head(r.stack), !.stack = Tail(r.stack)]

\* nothing has happened yet
NoHist ==
    [wroteClosed |-> FALSE,   \* a WriteText succeeded while closed was 1
     idSets |-> 0,            \* assignments to c.id
     latches |-> 0,           \* stores of 1 to acknowledged
     handled |-> <<>>,        \* the frames passed to handleMessage, in order
     queued |-> {},           \* the frames ever put on the queue
     matched |-> {},          \* the frames whose wait was in waitingMessages when looked up
     delivered |-> {},        \* the frames sent to an Ask's channel and received
     cancelled |-> {},        \* wait and ch of the Asks that returned their context's error
     cleared |-> FALSE,       \* Close has dropped the waiting entries
     events |-> {},           \* the events fired on an NSConn after its connect handler
     dispatched |-> {},       \* the frames that reached handleMessage's switch
     atClose |-> {},          \* connectedNamespaces when Close took its lock
     forced |-> [n \in NSNames |-> 0],  \* forced local disconnects fired by Close
     early |-> FALSE]         \* an event reached an NSConn before its connect handler returned nil

Init ==
    /\ active \in {{"client"}, {"server"}}
    /\ id = [c \in Conns |-> IF IsClient(c) THEN "" ELSE "c1"]
    /\ acknowledged = [c \in Conns |-> 0]
    /\ closed = [c \in Conns |-> 0]
    /\ connectedNamespaces = [c \in Conns |-> [n \in NSNames |-> 0]]
    /\ nsMu = [c \in Conns |-> ""]
    /\ waitingMessages = [c \in Conns |-> EmptyMap]
    /\ closeChClosed = [c \in Conns |-> 0]
    /\ netClosed = [c \in Conns |-> 0]
    /\ nsconns = [c \in Conns |-> <<>>]
    /\ nextCh = [c \in Conns |-> 1]
    /\ th = [c \in Conns |-> [t \in Threads |->
               IF t = Reader THEN [NewThread EXCEPT !.pc = "startReader"]
               ELSE NewThread]]
    /\ queue = [c \in Conns |-> <<>>]
    /\ nread = [c \in Conns |-> 0]
    /\ calls = [c \in Conns |-> 0]
    /\ net = [c \in Conns |-> <<>>]
    /\ hist = [c \in Conns |-> NoHist]

(***************************************************************************)
(* The socket.  WriteText succeeds, fails with a close-class error or fails *)
(* with another error; on a net connection that was closed it fails.        *)
(***************************************************************************)
WriteTextOutcomes(c) ==
    IF netClosed[c] > 0 THEN {"closeErr", "err"} ELSE {"ok", "closeErr", "err"}

\* hist after a WriteText with outcome o
Wrote(h, c, o) ==
    [h EXCEPT !.wroteClosed = @ \/ (o = "ok" /\ closed[c] = 1)]

(***************************************************************************)
(* NamespaceEvents.fireEvent on an NSConn: the handler's answer is the      *)
(* user's.  hist notes an event other than OnNamespaceConnect that reaches  *)
(* an NSConn whose OnNamespaceConnect handler has not returned nil.         *)
(***************************************************************************)
Fired(h, c, n, ev) ==
    [h EXCEPT !.early = @ \/ (ev # OnNamespaceConnect /\ nsconns[c][n].connect # "nil"),
              !.events = @ \cup {ev}]

(***************************************************************************)
(* Conn.Close                                                              *)
(***************************************************************************)
Connected(c) == {n \in NSNames : connectedNamespaces[c][n] # 0}

\* a Close that stores 1 whatever closed holds
CloseAlwaysWins(v) == TRUE

\* line 571: atomic.CompareAndSwapUint32(c.closed, 0, 1) swaps when closed holds 0
CloseWins(v) == v = 0

\* line 571: the compare-and-swap, and close(c.closeCh)
Close_cas(c, t) ==
    /\ At(c, t, "Close")
    /\ IF CloseWins(closed[c])
       THEN /\ closed' = Set(closed, c, 1)
            /\ closeChClosed' = Set(closeChClosed, c, closeChClosed[c] + 1)
            /\ SetTh(c, t, [L(c, t) EXCEPT !.pc = "Close_ns"])
       ELSE /\ SetTh(c, t, Ret(L(c, t)))
            /\ UNCHANGED <<closed, closeChClosed>>
    /\ UNCHANGED <<id, acknowledged, netClosed, nsVars, askVars, envVars, queue, hist>>

\* lines 574-581: under the namespaces lock, fire the forced local disconnect
\* of every connected namespace and delete it
Close_ns(c, t) ==
    /\ At(c, t, "Close_ns")
    /\ nsMu[c] = ""
    /\ connectedNamespaces' = Set(connectedNamespaces, c, [n \in NSNames |-> 0])
    /\ hist' = Set(hist, c,
         [hist[c] EXCEPT
            !.atClose = Connected(c),
            !.forced = [n \in NSNames |->
                          IF n \in Connected(c) THEN @[n] + 1 ELSE @[n]],
            !.early = @ \/ \E n \in Connected(c) :
                          nsconns[c][connectedNamespaces[c][n]].connect # "nil",
            !.events = IF Connected(c) = {} THEN @ ELSE @ \cup {OnNamespaceDisconnect}])
    /\ SetTh(c, t, [L(c, t) EXCEPT !.pc = "Close_wm",
                                   !.fires = @ + Cardinality(Connected(c))])
    /\ UNCHANGED <<flagVars, nsMu, nsconns, askVars, envVars, queue>>

\* a Close that leaves the waiting entries
WaitingKept(w) == w

\* lines 584-586: the map after the range that deletes every entry
WaitingDropped(w) == EmptyMap

\* lines 583-587: drop every waiting entry
Close_wm(c, t) ==
    /\ At(c, t, "Close_wm")
    /\ waitingMessages' = Set(waitingMessages, c, WaitingDropped(waitingMessages[c]))
    /\ hist' = Set(hist, c, [hist[c] EXCEPT !.cleared = TRUE])
    /\ SetTh(c, t, [L(c, t) EXCEPT !.pc = "Close_ack"])
    /\ UNCHANGED <<flagVars, nsVars, nextCh, envVars, queue>>

\* line 589
Close_ack(c, t) ==
    /\ At(c, t, "Close_ack")
    /\ acknowledged' = Set(acknowledged, c, 0)
    /\ SetTh(c, t, [L(c, t) EXCEPT !.pc = "Close_net"])
    /\ UNCHANGED <<id, closed, closeChClosed, netClosed, nsVars, askVars, envVars,
                   queue, hist>>

\* line 597
Close_net(c, t) ==
    /\ At(c, t, "Close_net")
    /\ netClosed' = Set(netClosed, c, netClosed[c] + 1)
    /\ SetTh(c, t, Ret(L(c, t)))
    /\ UNCHANGED <<id, acknowledged, closed, closeChClosed, nsVars, askVars, envVars,
                   queue, hist>>

Close(c, t) ==
    \/ Close_cas(c, t)
    \/ Close_ns(c, t)
    \/ Close_wm(c, t)
    \/ Close_ack(c, t)
    \/ Close_net(c, t)

(***************************************************************************)
(* Conn.Write                                                              *)
(***************************************************************************)
\* Write returns ret.  The reader uses no result of Write, and its locals of
\* Write are forgotten; a caller's are kept until its call is done.
WriteRet(t, r, ret) ==
    Ret(IF t = Reader
        THEN [r EXCEPT !.msg = NoMsg, !.wns = -1, !.wroom = "none", !.wt = 0]
        ELSE [r EXCEPT !.wret = ret])

\* lines 494-500: closed, or exempt from the checks, or on to them
Write_closed(c, t) ==
    /\ At(c, t, "Write")
    /\ SetTh(c, t,
         IF closed[c] > 0
         THEN WriteRet(t, L(c, t), FALSE)
         ELSE IF ~isConnect(L(c, t).msg) /\ ~isDisconnect(L(c, t).msg)
              THEN [L(c, t) EXCEPT !.pc = "Write_ns"]
              ELSE [L(c, t) EXCEPT !.pc = "Write_sock"])
    /\ UNCHANGED <<flagVars, nsVars, askVars, envVars, queue, hist>>

\* lines 501-514: the namespace must be connected, and the room joined
RoomChecked(m) == m.Room # "" /\ ~isRoomJoin(m) /\ ~isRoomLeft(m)

\* a Write that goes on without the NSConn
MayWriteAnyNamespace(m, n, rooms) == n = 0 \/ ~RoomChecked(m) \/ m.Room \in rooms

\* a Write that does not look at the rooms
MayWriteAnyRoom(m, n, rooms) == n # 0

\* lines 501-514: ns is the NSConn found (0: nil), rooms its rooms
MayWrite(m, n, rooms) == n # 0 /\ (RoomChecked(m) => m.Room \in rooms)

Write_ns(c, t) ==
    /\ At(c, t, "Write_ns")
    /\ nsMu[c] = ""
    /\ LET m == L(c, t).msg
           n == connectedNamespaces[c][m.Namespace]
           rooms == IF n = 0 THEN {} ELSE nsconns[c][n].rooms
           r == [L(c, t) EXCEPT
                   !.wns = n,
                   !.wroom = IF n = 0 \/ ~RoomChecked(m) THEN "none"
                             ELSE IF m.Room \in rooms THEN "in" ELSE "out"]
       IN SetTh(c, t,
            IF MayWrite(m, n, rooms)
            THEN [r EXCEPT !.pc = "Write_sock"]
            ELSE WriteRet(t, r, FALSE))
    /\ UNCHANGED <<flagVars, nsVars, askVars, envVars, queue, hist>>

\* lines 517-525
Write_sock(c, t) ==
    /\ At(c, t, "Write_sock")
    /\ \E o \in WriteTextOutcomes(c) :
         /\ hist' = Set(hist, c, Wrote(hist[c], c, o))
         /\ SetTh(c, t,
              LET r == [L(c, t) EXCEPT !.wt = @ + 1]
              IN CASE o = "ok" -> WriteRet(t, r, TRUE)
                   [] o = "closeErr" -> Call(r, "Close", "Write_fail")
                   [] OTHER -> WriteRet(t, r, FALSE))
    /\ UNCHANGED <<flagVars, nsVars, askVars, envVars, queue>>

\* line 522, after c.Close()
Write_fail(c, t) ==
    /\ At(c, t, "Write_fail")
    /\ SetTh(c, t, WriteRet(t, L(c, t), FALSE))
    /\ UNCHANGED <<flagVars, nsVars, askVars, envVars, queue, hist>>

Write(c, t) ==
    \/ Write_closed(c, t)
    \/ Write_ns(c, t)
    \/ Write_sock(c, t)
    \/ Write_fail(c, t)

(***************************************************************************)
(* Conn.Ask                                                                *)
(***************************************************************************)
\* an Ask that does not look at the deadline of its context
Ask_closedNoDeadline(c, t) ==
    /\ At(c, t, "Ask")
    /\ \E now \in 1..MaxClock :
         SetTh(c, t,
           IF closed[c] > 0
           THEN Ret([L(c, t) EXCEPT !.aerr = "CloseError(ErrWrite)"])
           ELSE [L(c, t) EXCEPT !.pc = "Ask_reg",
                                !.amsg.wait = GenWait(c, now)])
    /\ UNCHANGED <<flagVars, nsVars, askVars, envVars, queue, hist>>

\* lines 529-547: closed; the wait token of the wall clock; the deadline
Ask_closed(c, t) ==
    /\ At(c, t, "Ask")
    /\ \E now \in 1..MaxClock :
         SetTh(c, t,
           IF closed[c] > 0
           THEN Ret([L(c, t) EXCEPT !.aerr = "CloseError(ErrWrite)"])
           ELSE IF L(c, t).ctx = "expired"
                THEN Ret([L(c, t) EXCEPT !.aerr = "DeadlineExceeded"])
                ELSE [L(c, t) EXCEPT !.pc = "Ask_reg",
                                     !.amsg.wait = GenWait(c, now)])
    /\ UNCHANGED <<flagVars, nsVars, askVars, envVars, queue, hist>>

\* lines 549-554: register the channel, then Write
Ask_reg(c, t) ==
    /\ At(c, t, "Ask_reg")
    /\ waitingMessages' = Set(waitingMessages, c,
                              Put(waitingMessages[c], L(c, t).amsg.wait, nextCh[c]))
    /\ nextCh' = Set(nextCh, c, nextCh[c] + 1)
    /\ SetTh(c, t, Call([L(c, t) EXCEPT !.ach = nextCh[c], !.regs = @ + 1,
                                        !.msg = L(c, t).amsg],
                        "Write", "Ask_wrote"))
    /\ UNCHANGED <<flagVars, nsVars, envVars, queue, hist>>

\* lines 554-556
Ask_wrote(c, t) ==
    /\ At(c, t, "Ask_wrote")
    /\ SetTh(c, t,
         IF ~L(c, t).wret
         THEN Ret([L(c, t) EXCEPT !.aerr = "ErrWrite"])
         ELSE [L(c, t) EXCEPT !.pc = "Ask_select"])
    /\ UNCHANGED <<flagVars, nsVars, askVars, envVars, queue, hist>>

\* lines 559-560: the select's ctx.Done() case
Ask_ctxDone(c, t) ==
    /\ At(c, t, "Ask_select")
    /\ L(c, t).ctx = "done"
    /\ SetTh(c, t, Ret([L(c, t) EXCEPT !.aerr = "ctx.Err()"]))
    /\ hist' = Set(hist, c,
         [hist[c] EXCEPT !.cancelled =
            @ \cup {[wait |-> L(c, t).amsg.wait, ch |-> L(c, t).ach]}])
    /\ UNCHANGED <<flagVars, nsVars, askVars, envVars, queue>>

\* an Ask that returns the reply without its error
Ask_gotNoErr(c, t) ==
    /\ At(c, t, "Ask_got")
    /\ waitingMessages' = Set(waitingMessages, c,
                              Delete(waitingMessages[c], L(c, t).rcv.wait))
    /\ SetTh(c, t, Ret([L(c, t) EXCEPT !.aerr = "nil"]))
    /\ UNCHANGED <<flagVars, nsVars, nextCh, envVars, queue, hist>>

\* lines 561-566: after the select's receive case
Ask_got(c, t) ==
    /\ At(c, t, "Ask_got")
    /\ waitingMessages' = Set(waitingMessages, c,
                              Delete(waitingMessages[c], L(c, t).rcv.wait))
    /\ SetTh(c, t, Ret([L(c, t) EXCEPT !.aerr = L(c, t).rcv.Err]))
    /\ UNCHANGED <<flagVars, nsVars, nextCh, envVars, queue, hist>>

Ask(c, t) ==
    \/ Ask_closed(c, t)
    \/ Ask_reg(c, t)
    \/ Ask_wrote(c, t)
    \/ Ask_ctxDone(c, t)
    \/ Ask_got(c, t)

(***************************************************************************)
(* Conn.Connect and Conn.askConnect                                        *)
(***************************************************************************)
\* a connect that goes on after its handler's error
ConnectNeverRefused(err) == FALSE

\* lines 360 and 396: err != nil, of the local OnNamespaceConnect handler
ConnectRefused(err) == err # "nil"

\* newNSConn, with what its OnNamespaceConnect handler returned
NSConn(namespace, connect) ==
    [namespace |-> namespace, rooms |-> {}, connect |-> connect]

\* lines 267-273: the server waits for the acknowledgement
Connect_wait(c, t) ==
    /\ At(c, t, "Connect")
    /\ IsClient(c) \/ acknowledged[c] > 0
    /\ SetTh(c, t, [L(c, t) EXCEPT !.pc = "askConnect"])
    /\ UNCHANGED <<flagVars, nsVars, askVars, envVars, queue, hist>>

\* an askConnect that asks the peer whatever the map holds
NeverConnected(n) == FALSE

\* lines 329-330: ns != nil
AlreadyConnected(n) == n # 0

\* lines 329-345
askConnect_look(c, t) ==
    /\ At(c, t, "askConnect")
    /\ nsMu[c] = ""
    /\ LET n == connectedNamespaces[c][L(c, t).namespace]
       IN SetTh(c, t,
            IF AlreadyConnected(n)
            THEN Ret([L(c, t) EXCEPT !.ns = n, !.found = n, !.cerr = "nil"])
            ELSE IF L(c, t).namespace \notin Declared
                 THEN Ret([L(c, t) EXCEPT !.found = n, !.cerr = "ErrBadNamespace"])
                 ELSE Call([L(c, t) EXCEPT
                              !.found = n,
                              !.amsg = Msg(L(c, t).namespace, "", OnNamespaceConnect,
                                           "", FALSE, "nil", TRUE, FALSE, 0)],
                           "Ask", "askConnect_asked"))
    /\ UNCHANGED <<flagVars, nsVars, askVars, envVars, queue, hist>>

\* lines 346-348
askConnect_asked(c, t) ==
    /\ At(c, t, "askConnect_asked")
    /\ SetTh(c, t,
         IF L(c, t).aerr # "nil"
         THEN Ret([L(c, t) EXCEPT !.cerr = L(c, t).aerr])
         ELSE [L(c, t) EXCEPT !.pc = "askConnect_recheck"])
    /\ UNCHANGED <<flagVars, nsVars, askVars, envVars, queue, hist>>

\* lines 351-356
askConnect_recheck(c, t) ==
    /\ At(c, t, "askConnect_recheck")
    /\ nsMu[c] = ""
    /\ LET n == connectedNamespaces[c][L(c, t).namespace]
       IN SetTh(c, t,
            IF n # 0
            THEN Ret([L(c, t) EXCEPT !.ns = n, !.cerr = "nil"])
            ELSE [L(c, t) EXCEPT !.pc = "askConnect_fire"])
    /\ UNCHANGED <<flagVars, nsVars, askVars, envVars, queue, hist>>

\* lines 358-362: the new NSConn and its local OnNamespaceConnect
askConnect_fire(c, t) ==
    /\ At(c, t, "askConnect_fire")
    /\ \E err \in {"nil", "err"} :
         /\ nsconns' = Set(nsconns, c,
                           Append(nsconns[c], NSConn(L(c, t).namespace, err)))
         /\ SetTh(c, t,
              LET r == [L(c, t) EXCEPT !.fires = @ + 1]
              IN IF ConnectRefused(err)
                 THEN Ret([r EXCEPT !.cerr = err])
                 ELSE [r EXCEPT !.pc = "askConnect_insert",
                                !.ns = Len(nsconns[c]) + 1])
    /\ UNCHANGED <<flagVars, connectedNamespaces, nsMu, askVars, envVars, queue, hist>>

\* lines 364-366
askConnect_insert(c, t) ==
    /\ At(c, t, "askConnect_insert")
    /\ nsMu[c] = ""
    /\ connectedNamespaces' =
         [connectedNamespaces EXCEPT ![c][L(c, t).namespace] = L(c, t).ns]
    /\ SetTh(c, t, [L(c, t) EXCEPT !.pc = "askConnect_connected", !.ins = @ + 1])
    /\ UNCHANGED <<flagVars, nsMu, nsconns, askVars, envVars, queue, hist>>

\* lines 368-371: OnNamespaceConnected
askConnect_connected(c, t) ==
    /\ At(c, t, "askConnect_connected")
    /\ hist' = Set(hist, c, Fired(hist[c], c, L(c, t).ns, OnNamespaceConnected))
    /\ SetTh(c, t, Ret([L(c, t) EXCEPT !.fires = @ + 1, !.cerr = "nil"]))
    /\ UNCHANGED <<flagVars, nsVars, askVars, envVars, queue>>

Connect(c, t) ==
    \/ Connect_wait(c, t)
    \/ askConnect_look(c, t)
    \/ askConnect_asked(c, t)
    \/ askConnect_recheck(c, t)
    \/ askConnect_fire(c, t)
    \/ askConnect_insert(c, t)
    \/ askConnect_connected(c, t)

(***************************************************************************)
(* Conn.DisconnectAll and Conn.askDisconnect                               *)
(***************************************************************************)
\* lines 413-414: the write lock, held until DisconnectAll returns
DisconnectAll_lock(c, t) ==
    /\ At(c, t, "DisconnectAll")
    /\ nsMu[c] = ""
    /\ nsMu' = Set(nsMu, c, t)
    /\ SetTh(c, t, [L(c, t) EXCEPT !.pc = "DisconnectAll_range"])
    /\ UNCHANGED <<flagVars, connectedNamespaces, nsconns, askVars, envVars, queue, hist>>

\* lines 416-424: the next namespace of the map, or the end of the range and
\* the deferred Unlock
DisconnectAll_range(c, t) ==
    /\ At(c, t, "DisconnectAll_range")
    /\ IF Connected(c) # {}
       THEN /\ \E n \in Connected(c) :
                 SetTh(c, t,
                   Call([L(c, t) EXCEPT
                           !.lock = FALSE,
                           !.amsg = Msg(n, "", OnNamespaceDisconnect, "", FALSE,
                                        "nil", FALSE, FALSE, 0)],
                        "askDisconnect", "DisconnectAll_asked"))
            /\ UNCHANGED nsMu
       ELSE /\ SetTh(c, t, Ret([L(c, t) EXCEPT !.derr = "nil"]))
            /\ nsMu' = Set(nsMu, c, "")
    /\ UNCHANGED <<flagVars, connectedNamespaces, nsconns, askVars, envVars, queue, hist>>

\* lines 419-421: return the error, after the deferred Unlock, or go on
DisconnectAll_asked(c, t) ==
    /\ At(c, t, "DisconnectAll_asked")
    /\ IF L(c, t).derr # "nil"
       THEN /\ SetTh(c, t, Ret(L(c, t)))
            /\ nsMu' = Set(nsMu, c, "")
       ELSE /\ SetTh(c, t, [L(c, t) EXCEPT !.pc = "DisconnectAll_range"])
            /\ UNCHANGED nsMu
    /\ UNCHANGED <<flagVars, connectedNamespaces, nsconns, askVars, envVars, queue, hist>>

DisconnectAll(c, t) ==
    \/ DisconnectAll_lock(c, t)
    \/ DisconnectAll_range(c, t)
    \/ DisconnectAll_asked(c, t)

\* lines 428-440: the NSConn, under the read lock if lock is set, then the Ask
askDisconnect_look(c, t) ==
    /\ At(c, t, "askDisconnect")
    /\ L(c, t).lock => nsMu[c] = ""
    /\ LET r == L(c, t)
           n == connectedNamespaces[c][r.amsg.Namespace]
       IN SetTh(c, t,
            IF n = 0
            THEN Ret([r EXCEPT !.derr = "ErrBadNamespace"])
            ELSE Call([r EXCEPT !.ns = n], "Ask", "askDisconnect_asked"))
    /\ UNCHANGED <<flagVars, nsVars, askVars, envVars, queue, hist>>

\* an askDisconnect that goes on whatever its Ask returned
askDisconnect_askedAnyway(c, t) ==
    /\ At(c, t, "askDisconnect_asked")
    /\ SetTh(c, t, [L(c, t) EXCEPT !.pc = "askDisconnect_delete"])
    /\ UNCHANGED <<flagVars, nsVars, askVars, envVars, queue, hist>>

\* lines 441-443
askDisconnect_asked(c, t) ==
    /\ At(c, t, "askDisconnect_asked")
    /\ SetTh(c, t,
         IF L(c, t).aerr # "nil"
         THEN Ret([L(c, t) EXCEPT !.derr = L(c, t).aerr])
         ELSE [L(c, t) EXCEPT !.pc = "askDisconnect_delete"])
    /\ UNCHANGED <<flagVars, nsVars, askVars, envVars, queue, hist>>

\* lines 445-451: delete, under the write lock if lock is set
askDisconnect_delete(c, t) ==
    /\ At(c, t, "askDisconnect_delete")
    /\ L(c, t).lock => nsMu[c] = ""
    /\ connectedNamespaces' =
         [connectedNamespaces EXCEPT ![c][L(c, t).amsg.Namespace] = 0]
    /\ SetTh(c, t, [L(c, t) EXCEPT !.pc = "askDisconnect_fire"])
    /\ UNCHANGED <<flagVars, nsMu, nsconns, askVars, envVars, queue, hist>>

\* lines 453-456: the local OnNamespaceDisconnect
askDisconnect_fire(c, t) ==
    /\ At(c, t, "askDisconnect_fire")
    /\ hist' = Set(hist, c, Fired(hist[c], c, L(c, t).ns, OnNamespaceDisconnect))
    /\ SetTh(c, t, Ret([L(c, t) EXCEPT !.fires = @ + 1, !.derr = "nil"]))
    /\ UNCHANGED <<flagVars, nsVars, askVars, envVars, queue>>

askDisconnect(c, t) ==
    \/ askDisconnect_look(c, t)
    \/ askDisconnect_asked(c, t)
    \/ askDisconnect_delete(c, t)
    \/ askDisconnect_fire(c, t)

(***************************************************************************)
(* What the peer may send: the handshake frames, an invalid payload, and    *)
(* the Messages.  A reply (a wait token of this Conn's own making) may      *)
(* carry an error; isNoOp goes with the connect and disconnect events, a    *)
(* room with the room and user events.                                      *)
(***************************************************************************)
Peer(c) == IF c = "client" THEN "server" ELSE "client"
OwnWaits(c) == {GenWait(c, n) : n \in 1..MaxClock}
InEvents == {OnNamespaceConnect, OnNamespaceDisconnect, OnRoomJoin, OnRoomLeave, UserEvent}

InMsgs(c, names, events, waits) ==
    UNION {
      {Msg(n, r, ev, w, noop, e, FALSE, FALSE, 0) :
         r \in IF ev \in {OnNamespaceConnect, OnNamespaceDisconnect}
                THEN {""}
                ELSE IF ev = UserEvent THEN {""} \cup RoomNames ELSE RoomNames,
         noop \in IF ev \in {OnNamespaceConnect, OnNamespaceDisconnect}
                   THEN BOOLEAN ELSE {FALSE},
         e \in IF w \in OwnWaits(c) THEN {"nil", "err"} ELSE {"nil"}} :
      n \in names, ev \in events, w \in waits}

AckFrames == {Frame("ack", x, NoMsg) : x \in AckSuffixes}
BadFrame == Frame("bad", "", NoMsg)
MsgFrames(c, names, events, waits) ==
    {Frame("msg", "", m) : m \in InMsgs(c, names, events, waits)}

(***************************************************************************)
(* Conn.startReader                                                        *)
(***************************************************************************)
\* lines 154-157
startReader_closed(c) ==
    /\ At(c, Reader, "startReader")
    /\ SetTh(c, Reader,
         [L(c, Reader) EXCEPT !.pc = IF closed[c] > 0 THEN "rd_done" ELSE "read"])
    /\ UNCHANGED <<flagVars, nsVars, askVars, envVars, queue, hist>>

\* line 175: ReadText returns a frame
read_frame(c, frames) ==
    /\ At(c, Reader, "read")
    /\ netClosed[c] = 0
    /\ nread[c] < MaxFrames
    /\ \E f \in frames :
         SetTh(c, Reader,
           [L(c, Reader) EXCEPT !.pc = "gotFrame",
                                !.frame = [f EXCEPT !.m.seq = nread[c] + 1]])
    /\ nread' = Set(nread, c, nread[c] + 1)
    /\ UNCHANGED <<flagVars, nsVars, askVars, active, calls, net, queue, hist>>

\* lines 176-178: ReadText fails; the deferred Close runs
read_err(c) ==
    /\ At(c, Reader, "read")
    /\ SetTh(c, Reader, Call(L(c, Reader), "Close", "rd_done"))
    /\ UNCHANGED <<flagVars, nsVars, askVars, envVars, queue, hist>>

\* lines 180-212: the frame is part of the handshake, invalid, queued or handled
gotFrame(c) ==
    /\ At(c, Reader, "gotFrame")
    /\ LET r == L(c, Reader)
           f == r.frame
           handshake == acknowledged[c] = 0 /\ f.kind = "ack"
           toQueue == ~handshake /\ f.kind = "msg" /\ acknowledged[c] = 0
       IN /\ SetTh(c, Reader,
               CASE handshake /\ IsClient(c) -> [r EXCEPT !.pc = "ack_id"]
                 [] handshake /\ ~IsClient(c) /\ f.suffix = "" ->
                      [r EXCEPT !.pc = "ack_reply"]
                 [] handshake /\ ~IsClient(c) /\ f.suffix # "" ->
                      [r EXCEPT !.pc = "ack_store"]
                 [] ~handshake /\ f.kind # "msg" ->
                      [r EXCEPT !.pc = "read", !.frame = NoFrame]
                 [] toQueue -> [r EXCEPT !.pc = "read", !.frame = NoFrame]
                 [] OTHER -> Call([r EXCEPT !.cur = f.m, !.frame = NoFrame],
                                  "handleMessage", "loop_handled"))
          /\ queue' = IF toQueue THEN Set(queue, c, Append(queue[c], f.m)) ELSE queue
          /\ hist' = IF toQueue
                     THEN Set(hist, c, [hist[c] EXCEPT !.queued = @ \cup {f.m.seq}])
                     ELSE hist
    /\ UNCHANGED <<flagVars, nsVars, askVars, envVars>>

\* lines 182-183: the client takes its id from the frame
ack_id(c) ==
    /\ At(c, Reader, "ack_id")
    /\ id' = Set(id, c, L(c, Reader).frame.suffix)
    /\ hist' = Set(hist, c, [hist[c] EXCEPT !.idSets = @ + 1])
    /\ SetTh(c, Reader, [L(c, Reader) EXCEPT !.pc = "ack_store"])
    /\ UNCHANGED <<acknowledged, closed, closeChClosed, netClosed, nsVars, askVars,
                   envVars, queue>>

\* lines 184 and 192
ack_store(c) ==
    /\ At(c, Reader, "ack_store")
    /\ acknowledged' = Set(acknowledged, c, 1)
    /\ hist' = Set(hist, c, [hist[c] EXCEPT !.latches = @ + 1])
    /\ SetTh(c, Reader,
         [L(c, Reader) EXCEPT !.pc = IF IsClient(c) THEN "ack_ok" ELSE "handleQueue",
                              !.frame = NoFrame])
    /\ UNCHANGED <<id, closed, closeChClosed, netClosed, nsVars, askVars, envVars, queue>>

\* line 185: the client answers ack_ok
ack_ok(c) ==
    /\ At(c, Reader, "ack_ok")
    /\ \E o \in WriteTextOutcomes(c) : hist' = Set(hist, c, Wrote(hist[c], c, o))
    /\ SetTh(c, Reader, [L(c, Reader) EXCEPT !.pc = "handleQueue"])
    /\ UNCHANGED <<flagVars, nsVars, askVars, envVars, queue>>

\* line 189: the server answers "ack" with "ack" and the id
ack_reply(c) ==
    /\ At(c, Reader, "ack_reply")
    /\ \E o \in WriteTextOutcomes(c) : hist' = Set(hist, c, Wrote(hist[c], c, o))
    /\ SetTh(c, Reader, [L(c, Reader) EXCEPT !.pc = "read", !.frame = NoFrame])
    /\ UNCHANGED <<flagVars, nsVars, askVars, envVars, queue>>

\* a handleQueue that takes the queue from its end
QueueNextFromEnd(q, i) == q[Len(q) - i]

\* lines 166-168: the message the range over the queue takes after i others
QueueNext(q, i) == q[i + 1]

\* lines 162-171: handleQueue, one message of the queue at a time
handleQueue(c) ==
    /\ At(c, Reader, "handleQueue")
    /\ LET r == L(c, Reader)
       IN IF r.qi < Len(queue[c])
          THEN /\ SetTh(c, Reader,
                    Call([r EXCEPT !.cur = QueueNext(queue[c], r.qi), !.qi = @ + 1,
                                   !.hret = TRUE],
                         "handleMessage", "handleQueue"))
               /\ UNCHANGED queue
          ELSE /\ SetTh(c, Reader, [r EXCEPT !.pc = "read", !.qi = 0, !.hret = TRUE])
               /\ queue' = Set(queue, c, <<>>)
    /\ UNCHANGED <<flagVars, nsVars, askVars, envVars, hist>>

\* lines 214-216
loop_handled(c) ==
    /\ At(c, Reader, "loop_handled")
    /\ SetTh(c, Reader,
         IF ~L(c, Reader).hret
         THEN Call([L(c, Reader) EXCEPT !.hret = TRUE], "Close", "rd_done")
         ELSE [L(c, Reader) EXCEPT !.pc = "read"])
    /\ UNCHANGED <<flagVars, nsVars, askVars, envVars, queue, hist>>

startReader(c, frames) ==
    \/ startReader_closed(c)
    \/ read_frame(c, frames)
    \/ read_err(c)
    \/ gotFrame(c)
    \/ ack_id(c)
    \/ ack_store(c)
    \/ ack_ok(c)
    \/ ack_reply(c)
    \/ handleQueue(c)
    \/ loop_handled(c)

(***************************************************************************)
(* Conn.handleMessage                                                      *)
(***************************************************************************)
\* lines 221-229: the lookup of msg.wait in waitingMessages
handleMessage_wait(c) ==
    /\ At(c, Reader, "handleMessage")
    /\ LET r == L(c, Reader)
           ok == r.cur.wait # "" /\ r.cur.wait \in DOMAIN waitingMessages[c]
       IN SetTh(c, Reader,
            IF ok
            THEN [r EXCEPT !.pc = "handleMessage_send", !.ok = TRUE,
                           !.ch = waitingMessages[c][r.cur.wait]]
            ELSE [r EXCEPT !.pc = "handleMessage_switch", !.ok = FALSE, !.ch = 0])
    /\ hist' = Set(hist, c,
         [hist[c] EXCEPT
            !.handled = Append(@, L(c, Reader).cur.seq),
            !.matched = IF L(c, Reader).cur.wait \in DOMAIN waitingMessages[c]
                        THEN @ \cup {L(c, Reader).cur.seq} ELSE @])
    /\ UNCHANGED <<flagVars, nsVars, askVars, envVars, queue>>

\* a handleMessage that goes on to its switch after the send
SentFallsThrough(r) == [r EXCEPT !.pc = "handleMessage_switch", !.ok = FALSE, !.ch = 0]

\* line 227: return true
SentReturns(r) == Ret([r EXCEPT !.hret = TRUE, !.ok = FALSE, !.ch = 0, !.cur = NoMsg])

\* line 226 with line 561: ch <- msg meets the receive of the Ask that made ch
handleMessage_send(c, t) ==
    /\ At(c, Reader, "handleMessage_send")
    /\ At(c, t, "Ask_select")
    /\ L(c, t).ach = L(c, Reader).ch
    /\ th' = [th EXCEPT
                ![c][Reader] = SentReturns(@),
                ![c][t] = [@ EXCEPT !.pc = "Ask_got", !.rcv = L(c, Reader).cur]]
    /\ hist' = Set(hist, c, [hist[c] EXCEPT !.delivered = @ \cup {L(c, Reader).cur.seq}])
    /\ UNCHANGED <<flagVars, nsVars, askVars, envVars, queue>>

\* lines 231-245: the switch on msg.Event
handleMessage_switch(c) ==
    /\ At(c, Reader, "handleMessage_switch")
    /\ LET r == L(c, Reader)
       IN SetTh(c, Reader,
            [r EXCEPT !.pc = CASE r.cur.Event = OnNamespaceConnect -> "replyConnect"
                              [] r.cur.Event = OnNamespaceDisconnect -> "replyDisconnect"
                              [] OTHER -> "tryNamespace",
                      !.hret = TRUE])
    /\ hist' = Set(hist, c, [hist[c] EXCEPT !.dispatched = @ \cup {L(c, Reader).cur.seq}])
    /\ UNCHANGED <<flagVars, nsVars, askVars, envVars, queue>>

\* lines 310-322, called at lines 237, 241 and 245
tryNamespace(c) ==
    /\ At(c, Reader, "tryNamespace")
    /\ nsMu[c] = ""
    /\ LET r == L(c, Reader)
           n == connectedNamespaces[c][r.cur.Namespace]
       IN SetTh(c, Reader,
            IF n = 0
            THEN [r EXCEPT !.pc = "Write",
                           !.msg = [r.cur EXCEPT !.Err = "ErrBadNamespace"],
                           !.cur = NoMsg]
            ELSE [r EXCEPT !.ns = n,
                           !.pc = CASE r.cur.Event = OnRoomJoin -> "replyRoomJoin"
                                    [] r.cur.Event = OnRoomLeave -> "replyRoomLeave"
                                    [] OTHER -> "handleMessage_fire"])
    /\ UNCHANGED <<flagVars, nsVars, askVars, envVars, queue, hist>>

\* lines 250-258: the user's handler, and the reply when it fails
handleMessage_fire(c) ==
    /\ At(c, Reader, "handleMessage_fire")
    /\ \E err \in {"nil", "err", "manualClose"} :
         LET r == L(c, Reader)
         IN SetTh(c, Reader,
              IF err = "nil"
              THEN Ret([r EXCEPT !.hret = TRUE, !.cur = NoMsg, !.ns = 0])
              ELSE Call([r EXCEPT !.herr = err, !.cur = NoMsg, !.ns = 0,
                                  !.msg = [r.cur EXCEPT !.IsLocal = FALSE, !.Err = err]],
                        "Write", "handleMessage_wrote"))
    /\ hist' = Set(hist, c, Fired(hist[c], c, L(c, Reader).ns, L(c, Reader).cur.Event))
    /\ UNCHANGED <<flagVars, nsVars, askVars, envVars, queue>>

\* lines 255-257
handleMessage_wrote(c) ==
    /\ At(c, Reader, "handleMessage_wrote")
    /\ SetTh(c, Reader,
         Ret([L(c, Reader) EXCEPT !.hret = (L(c, Reader).herr # "manualClose"),
                                  !.herr = "nil"]))
    /\ UNCHANGED <<flagVars, nsVars, askVars, envVars, queue, hist>>

\* NSConn.replyRoomJoin and NSConn.replyRoomLeave: the room set of the NSConn
\* follows the peer's request unless it is no ask or the handler refuses
replyRoom(c) ==
    /\ \/ At(c, Reader, "replyRoomJoin")
       \/ At(c, Reader, "replyRoomLeave")
    /\ LET r == L(c, Reader)
           m == r.cur
           done == [r EXCEPT !.cur = NoMsg, !.ns = 0]
       IN IF m.wait = "" \/ m.isNoOp
          THEN /\ SetTh(c, Reader, Ret(done))
               /\ UNCHANGED <<nsconns, hist>>
          ELSE \E err \in {"nil", "err"} :
                 /\ nsconns' =
                      IF err # "nil" THEN nsconns
                      ELSE [nsconns EXCEPT ![c][r.ns].rooms =
                              IF r.pc = "replyRoomJoin" THEN @ \cup {m.Room}
                              ELSE @ \ {m.Room}]
                 /\ hist' = Set(hist, c, Fired(hist[c], c, r.ns, m.Event))
                 /\ SetTh(c, Reader, [done EXCEPT !.pc = "Write",
                                                  !.msg = [m EXCEPT !.Err = err]])
    /\ UNCHANGED <<flagVars, connectedNamespaces, nsMu, askVars, envVars, queue>>

handleMessage(c) ==
    \/ handleMessage_wait(c)
    \/ handleMessage_switch(c)
    \/ tryNamespace(c)
    \/ handleMessage_fire(c)
    \/ handleMessage_wrote(c)

(***************************************************************************)
(* Conn.replyConnect                                                       *)
(***************************************************************************)
\* lines 376-392
replyConnect_look(c) ==
    /\ At(c, Reader, "replyConnect")
    /\ LET r == L(c, Reader)
           m == r.cur
           n == connectedNamespaces[c][m.Namespace]
       IN /\ m.wait = "" \/ m.isNoOp \/ nsMu[c] = ""
          /\ SetTh(c, Reader,
               CASE m.wait = "" \/ m.isNoOp -> Ret([r EXCEPT !.cur = NoMsg])
                 [] n # 0 ->
                      [r EXCEPT !.pc = "Write", !.cur = NoMsg,
                                !.msg = [m EXCEPT !.isNoOp = TRUE]]
                 [] m.Namespace \notin Declared ->
                      [r EXCEPT !.pc = "Write", !.cur = NoMsg,
                                !.msg = [m EXCEPT !.Err = "ErrBadNamespace"]]
                 [] OTHER -> [r EXCEPT !.pc = "replyConnect_fire"])
    /\ UNCHANGED <<flagVars, nsVars, askVars, envVars, queue, hist>>

\* lines 394-400: the new NSConn and its local OnNamespaceConnect
replyConnect_fire(c) ==
    /\ At(c, Reader, "replyConnect_fire")
    /\ \E err \in {"nil", "err"} :
         LET r == L(c, Reader)
         IN /\ nsconns' = Set(nsconns, c,
                              Append(nsconns[c], NSConn(r.cur.Namespace, err)))
            /\ SetTh(c, Reader,
                 IF ConnectRefused(err)
                 THEN [r EXCEPT !.pc = "Write", !.cur = NoMsg,
                                !.msg = [r.cur EXCEPT !.Err = err]]
                 ELSE [r EXCEPT !.pc = "replyConnect_insert",
                                !.ns = Len(nsconns[c]) + 1])
    /\ UNCHANGED <<flagVars, connectedNamespaces, nsMu, askVars, envVars, queue, hist>>

\* lines 402-406: insert, then write the reply
replyConnect_insert(c) ==
    /\ At(c, Reader, "replyConnect_insert")
    /\ nsMu[c] = ""
    /\ connectedNamespaces' =
         [connectedNamespaces EXCEPT ![c][L(c, Reader).cur.Namespace] = L(c, Reader).ns]
    /\ SetTh(c, Reader,
         Call([L(c, Reader) EXCEPT !.msg = L(c, Reader).cur], "Write",
              "replyConnect_connected"))
    /\ UNCHANGED <<flagVars, nsMu, nsconns, askVars, envVars, queue, hist>>

\* lines 408-409: OnNamespaceConnected
replyConnect_connected(c) ==
    /\ At(c, Reader, "replyConnect_connected")
    /\ hist' = Set(hist, c, Fired(hist[c], c, L(c, Reader).ns, OnNamespaceConnected))
    /\ SetTh(c, Reader, Ret([L(c, Reader) EXCEPT !.cur = NoMsg, !.ns = 0]))
    /\ UNCHANGED <<flagVars, nsVars, askVars, envVars, queue>>

replyConnect(c) ==
    \/ replyConnect_look(c)
    \/ replyConnect_fire(c)
    \/ replyConnect_insert(c)
    \/ replyConnect_connected(c)

(***************************************************************************)
(* Conn.replyDisconnect                                                    *)
(***************************************************************************)
\* lines 460-470
replyDisconnect_look(c) ==
    /\ At(c, Reader, "replyDisconnect")
    /\ LET r == L(c, Reader)
           m == r.cur
           n == connectedNamespaces[c][m.Namespace]
       IN /\ m.wait = "" \/ m.isNoOp \/ nsMu[c] = ""
          /\ SetTh(c, Reader,
               CASE m.wait = "" \/ m.isNoOp \/ n = 0 -> Ret([r EXCEPT !.cur = NoMsg])
                 [] IsClient(c) -> [r EXCEPT !.pc = "replyDisconnect_client", !.ns = n]
                 [] OTHER -> [r EXCEPT !.pc = "replyDisconnect_server", !.ns = n])
    /\ UNCHANGED <<flagVars, nsVars, askVars, envVars, queue, hist>>

\* lines 471-474: the client deletes, then writes the reply
replyDisconnect_client(c) ==
    /\ At(c, Reader, "replyDisconnect_client")
    /\ nsMu[c] = ""
    /\ connectedNamespaces' =
         [connectedNamespaces EXCEPT ![c][L(c, Reader).cur.Namespace] = 0]
    /\ SetTh(c, Reader,
         Call([L(c, Reader) EXCEPT !.msg = L(c, Reader).cur], "Write",
              "replyDisconnect_fire"))
    /\ UNCHANGED <<flagVars, nsMu, nsconns, askVars, envVars, queue, hist>>

\* line 475: the client's local handler, after the reply
replyDisconnect_fire(c) ==
    /\ At(c, Reader, "replyDisconnect_fire")
    /\ hist' = Set(hist, c, Fired(hist[c], c, L(c, Reader).ns, OnNamespaceDisconnect))
    /\ SetTh(c, Reader, Ret([L(c, Reader) EXCEPT !.cur = NoMsg, !.ns = 0]))
    /\ UNCHANGED <<flagVars, nsVars, askVars, envVars, queue>>

\* lines 480-483: the server's local handler first
replyDisconnect_server(c) ==
    /\ At(c, Reader, "replyDisconnect_server")
    /\ \E err \in {"nil", "err"} :
         LET r == L(c, Reader)
         IN SetTh(c, Reader,
              IF err # "nil"
              THEN [r EXCEPT !.pc = "Write", !.cur = NoMsg, !.ns = 0,
                             !.msg = [r.cur EXCEPT !.Err = err]]
              ELSE [r EXCEPT !.pc = "replyDisconnect_delete"])
    /\ hist' = Set(hist, c, Fired(hist[c], c, L(c, Reader).ns, OnNamespaceDisconnect))
    /\ UNCHANGED <<flagVars, nsVars, askVars, envVars, queue>>

\* lines 484-488: the server deletes, then writes the reply
replyDisconnect_delete(c) ==
    /\ At(c, Reader, "replyDisconnect_delete")
    /\ nsMu[c] = ""
    /\ connectedNamespaces' =
         [connectedNamespaces EXCEPT ![c][L(c, Reader).cur.Namespace] = 0]
    /\ SetTh(c, Reader,
         [L(c, Reader) EXCEPT !.pc = "Write", !.msg = L(c, Reader).cur,
                              !.cur = NoMsg, !.ns = 0])
    /\ UNCHANGED <<flagVars, nsMu, nsconns, askVars, envVars, queue, hist>>

replyDisconnect(c) ==
    \/ replyDisconnect_look(c)
    \/ replyDisconnect_client(c)
    \/ replyDisconnect_fire(c)
    \/ replyDisconnect_server(c)
    \/ replyDisconnect_delete(c)

(***************************************************************************)
(* The caller goroutines: each starts a call on the Conn, runs it to its    *)
(* return ("done") and forgets it.  A context may be cancelled at any time. *)
(***************************************************************************)
OutMsg(n, r, ev) == Msg(n, r, ev, "", FALSE, "nil", FALSE, FALSE, 0)

Start(c, t, op, entry, r) ==
    /\ At(c, t, "idle")
    /\ calls[c] < MaxCalls
    /\ calls' = Set(calls, c, calls[c] + 1)
    /\ SetTh(c, t, [r EXCEPT !.pc = entry, !.stack = <<"done">>, !.op = op])
    /\ UNCHANGED <<flagVars, nsVars, askVars, active, nread, net, queue, hist>>

StartWrite(c, t, msgs) ==
    \E m \in msgs : Start(c, t, "Write", "Write", [NewThread EXCEPT !.msg = m])

StartAsk(c, t, msgs, ctxs) ==
    \E m \in msgs, x \in ctxs :
       Start(c, t, "Ask", "Ask", [NewThread EXCEPT !.amsg = m, !.ctx = x])

StartConnect(c, t, names) ==
    \E n \in names :
       Start(c, t, "Connect", "Connect", [NewThread EXCEPT !.namespace = n])

StartClose(c, t) ==
    Start(c, t, "Close", "Close", NewThread)

StartDisconnectAll(c, t) ==
    Start(c, t, "DisconnectAll", "DisconnectAll", NewThread)

\* a call of askDisconnect that locks for itself
StartAskDisconnect(c, t, names) ==
    \E n \in names :
       Start(c, t, "askDisconnect", "askDisconnect",
             [NewThread EXCEPT !.lock = TRUE,
                               !.amsg = Msg(n, "", OnNamespaceDisconnect, "", FALSE,
                                            "nil", FALSE, FALSE, 0)])

\* the caller cancels the context of its call; line 559 is the one place that
\* looks at ctx.Done(), so a cancel before it shows there
Cancel(c, t) ==
    /\ At(c, t, "Ask_select")
    /\ L(c, t).ctx = "live"
    /\ SetTh(c, t, [L(c, t) EXCEPT !.ctx = "done"])
    /\ UNCHANGED <<flagVars, nsVars, askVars, envVars, queue, hist>>

\* the call has returned
Finish(c, t) ==
    /\ At(c, t, "done")
    /\ SetTh(c, t, NewThread)
    /\ UNCHANGED <<flagVars, nsVars, askVars, envVars, queue, hist>>

\* the goroutine is at a place where it takes the namespaces lock: the read
\* lock of Conn.Namespace and of askConnect's re-check, the write lock of the
\* insertions, the deletions and Close
WaitsForLock(c, t) ==
    \/ L(c, t).pc \in {"tryNamespace", "Write_ns", "askConnect", "askConnect_recheck",
                       "askConnect_insert", "replyConnect_insert",
                       "replyDisconnect_client", "replyDisconnect_delete", "Close_ns",
                       "DisconnectAll"}
    \/ /\ L(c, t).pc \in {"replyConnect", "replyDisconnect"}
       /\ L(c, t).cur.wait # ""
       /\ ~L(c, t).cur.isNoOp
    \/ /\ L(c, t).pc \in {"askDisconnect", "askDisconnect_delete"}
       /\ L(c, t).lock

(***************************************************************************)
(* The reader alone, with a caller that may close the Conn: the handshake,  *)
(* the queue and the dispatch of what the peer sends.                       *)
(***************************************************************************)
ReaderFrames(c) ==
    AckFrames \cup {BadFrame}
      \cup MsgFrames(c, {"chat"}, InEvents, {GenWait(Peer(c), 1)})

ReaderSteps(c, frames) ==
    \/ startReader(c, frames)
    \/ handleMessage(c)
    \/ replyRoom(c)
    \/ replyConnect(c)
    \/ replyDisconnect(c)
    \/ Write(c, Reader)
    \/ Close(c, Reader)

NextReader ==
    \E c \in Conns :
       \/ ReaderSteps(c, ReaderFrames(c))
       \/ StartClose(c, "t1")
       \/ Close(c, "t1")
       \/ Finish(c, "t1")

SpecReader == Init /\ [][NextReader]_vars

(***************************************************************************)
(* A caller that Asks, and may cancel, and a caller that Closes, while the  *)
(* reader takes the peer's replies: the peer answers with this Conn's own   *)
(* wait tokens, on time or not.                                            *)
(***************************************************************************)
AskMsgs == {OutMsg("chat", "", OnNamespaceConnect)}

\* the peer sends its handshake frame first, and its replies after it
AskFrames(c) ==
    IF acknowledged[c] = 0
    THEN {Frame("ack", "c1", NoMsg)}
    ELSE {Frame("msg", "", Msg("chat", "", ev, w, FALSE, "nil", FALSE, FALSE, 0)) :
            ev \in {OnNamespaceConnect, UserEvent}, w \in OwnWaits(c)}

NextAsk ==
    \E c \in Conns :
       \/ startReader(c, AskFrames(c))
       \/ handleMessage(c)
       \/ replyConnect(c)
       \/ Write(c, Reader)
       \/ Close(c, Reader)
       \/ StartAsk(c, "t1", AskMsgs, {"live"})
       \/ Cancel(c, "t1")
       \/ handleMessage_send(c, "t1")
       \/ Ask(c, "t1")
       \/ Write(c, "t1")
       \/ StartClose(c, "t2")
       \/ \E t \in Tasks :
            \/ Close(c, t)
            \/ Finish(c, t)

SpecAsk == Init /\ [][NextAsk]_vars

(***************************************************************************)
(* A caller that Writes and a caller that Closes, while the peer connects   *)
(* the namespace "chat" and joins or leaves a room of it.                   *)
(***************************************************************************)
WriteMsgs ==
    {OutMsg("chat", "", UserEvent), OutMsg("chat", "r1", UserEvent),
     OutMsg("news", "", UserEvent), OutMsg("chat", "r1", OnRoomJoin),
     OutMsg("chat", "r1", OnNamespaceConnect)}

\* the peer sends its handshake frame first, and its requests after it
WriteFrames(c) ==
    IF acknowledged[c] = 0
    THEN {Frame("ack", "c1", NoMsg)}
    ELSE {Frame("msg", "", Msg("chat", "", OnNamespaceConnect, GenWait(Peer(c), 1),
                               FALSE, "nil", FALSE, FALSE, 0))}
           \cup {Frame("msg", "", Msg("chat", "r1", ev, GenWait(Peer(c), 1),
                                      FALSE, "nil", FALSE, FALSE, 0)) :
                   ev \in {OnRoomJoin, OnRoomLeave}}

NextWrite ==
    \E c \in Conns :
       \/ startReader(c, WriteFrames(c))
       \/ handleMessage_wait(c)
       \/ handleMessage_switch(c)
       \/ tryNamespace(c)
       \/ replyRoom(c)
       \/ replyConnect(c)
       \/ Write(c, Reader)
       \/ Close(c, Reader)
       \/ StartWrite(c, "t1", WriteMsgs)
       \/ Write(c, "t1")
       \/ StartClose(c, "t2")
       \/ \E t \in Tasks :
            \/ Close(c, t)
            \/ Finish(c, t)

SpecWrite == Init /\ [][NextWrite]_vars

(***************************************************************************)
(* A caller that Connects to "chat", again and again, while the peer        *)
(* answers, connects and disconnects the namespace itself and sends events  *)
(* of it.                                                                  *)
(***************************************************************************)
\* the peer sends its handshake frame first; it answers the tokens that wait
ConnectFrames(c) ==
    IF acknowledged[c] = 0
    THEN {Frame("ack", "c1", NoMsg)}
    ELSE {Frame("msg", "", Msg("chat", "", OnNamespaceConnect, w, FALSE, e,
                               FALSE, FALSE, 0)) :
            w \in DOMAIN waitingMessages[c], e \in {"nil", "err"}}
           \cup {Frame("msg", "", Msg("chat", "", ev, GenWait(Peer(c), 1), FALSE, "nil",
                                      FALSE, FALSE, 0)) :
                   ev \in {OnNamespaceConnect, OnNamespaceDisconnect}}
           \cup {Frame("msg", "", Msg("chat", "", UserEvent, "", FALSE, "nil",
                                      FALSE, FALSE, 0))}

NextConnect ==
    \E c \in Conns :
       \/ startReader(c, ConnectFrames(c))
       \/ handleMessage(c)
       \/ replyConnect(c)
       \/ replyDisconnect(c)
       \/ Write(c, Reader)
       \/ Close(c, Reader)
       \/ StartConnect(c, "t1", {"chat"})
       \/ Cancel(c, "t1")
       \/ handleMessage_send(c, "t1")
       \/ Connect(c, "t1")
       \/ Ask(c, "t1")
       \/ Write(c, "t1")
       \/ Close(c, "t1")
       \/ Finish(c, "t1")

SpecConnect == Init /\ [][NextConnect]_vars

(***************************************************************************)
(* Two callers that Close, and the reader that Closes when it returns,      *)
(* while the peer connects the namespaces and sends an event of one.        *)
(***************************************************************************)
\* the peer sends its handshake frame first, and its connects after it
CloseFrames(c) ==
    IF acknowledged[c] = 0
    THEN {Frame("ack", "c1", NoMsg)}
    ELSE {Frame("msg", "", Msg(n, "", OnNamespaceConnect, GenWait(Peer(c), 1), FALSE,
                               "nil", FALSE, FALSE, 0)) : n \in Declared}
           \cup {Frame("msg", "", Msg("chat", "", UserEvent, "", FALSE, "nil",
                                      FALSE, FALSE, 0))}

NextClose ==
    \E c \in Conns :
       \/ startReader(c, CloseFrames(c))
       \/ handleMessage(c)
       \/ replyConnect(c)
       \/ Write(c, Reader)
       \/ Close(c, Reader)
       \/ \E t \in Tasks :
            \/ StartClose(c, t)
            \/ Close(c, t)
            \/ Finish(c, t)

SpecClose == Init /\ [][NextClose]_vars

(***************************************************************************)
(* A caller that Connects to "chat", which the peer may not have declared,  *)
(* and a caller that Connects to "admin", which this Conn has not declared, *)
(* while the peer asks to connect "admin" itself.                           *)
(***************************************************************************)
\* the wait tokens of the asks that were written and wait for their answer
Asked(c) ==
    {L(c, t).amsg.wait :
       t \in {x \in Tasks : \/ L(c, x).pc = "Ask_select"
                            \/ L(c, x).pc = "Ask_wrote" /\ L(c, x).wret}}

\* the peer sends its handshake frame first; it answers an ask once
UndeclaredFrames(c) ==
    IF acknowledged[c] = 0
    THEN {Frame("ack", "c1", NoMsg)}
    ELSE {Frame("msg", "", Msg("chat", "", OnNamespaceConnect, w, FALSE, e,
                               FALSE, FALSE, 0)) :
            w \in Asked(c), e \in {"nil", "ErrBadNamespace"}}
           \cup {Frame("msg", "", Msg("admin", "", OnNamespaceConnect,
                                      GenWait(Peer(c), 1), FALSE, "nil",
                                      FALSE, FALSE, 0))}

NextUndeclared ==
    \E c \in Conns :
       \/ startReader(c, UndeclaredFrames(c))
       \/ handleMessage_wait(c)
       \/ handleMessage_switch(c)
       \/ replyConnect(c)
       \/ Close(c, Reader)
       \/ StartConnect(c, "t1", {"chat"})
       \/ StartConnect(c, "t2", {"admin"})
       \/ Cancel(c, "t1")
       \/ handleMessage_send(c, "t1")
       \/ Ask(c, "t1")
       \/ \E t \in Threads :
            \/ Write_closed(c, t)
            \/ Write_sock(c, t)
            \/ Write_fail(c, t)
       \/ \E t \in Tasks :
            \/ Connect(c, t)
            \/ Close(c, t)
            \/ Finish(c, t)

SpecUndeclared == Init /\ [][NextUndeclared]_vars

(***************************************************************************)
(* A caller that Asks with a context that is live or whose deadline is long *)
(* past, and a caller that Closes, while the peer answers.                  *)
(***************************************************************************)
\* the peer sends its handshake frame first, and its replies after it
DeadlineFrames(c) ==
    IF acknowledged[c] = 0
    THEN {Frame("ack", "c1", NoMsg)}
    ELSE {Frame("msg", "", Msg("chat", "", OnNamespaceConnect, w, FALSE, "nil",
                               FALSE, FALSE, 0)) : w \in OwnWaits(c)}

NextDeadline ==
    \E c \in Conns :
       \/ startReader(c, DeadlineFrames(c))
       \/ handleMessage_wait(c)
       \/ handleMessage_switch(c)
       \/ replyConnect(c)
       \/ Close(c, Reader)
       \/ StartAsk(c, "t1", AskMsgs, {"live", "expired"})
       \/ Cancel(c, "t1")
       \/ handleMessage_send(c, "t1")
       \/ Ask(c, "t1")
       \/ StartClose(c, "t2")
       \/ \E t \in Threads :
            \/ Write_closed(c, t)
            \/ Write_sock(c, t)
            \/ Write_fail(c, t)
       \/ \E t \in Tasks :
            \/ Close(c, t)
            \/ Finish(c, t)

SpecDeadline == Init /\ [][NextDeadline]_vars

(***************************************************************************)
(* A caller that Asks and may cancel, and a caller that Closes, while the   *)
(* peer answers the asks it was sent, those that have given up included,    *)
(* and sends events of its own.                                            *)
(***************************************************************************)
\* the peer sends its handshake frame first; it answers an ask once, in time
\* or late
LateFrames(c) ==
    IF acknowledged[c] = 0
    THEN {Frame("ack", "c1", NoMsg)}
    ELSE {Frame("msg", "", Msg("chat", "", OnNamespaceConnect, w, FALSE, "nil",
                               FALSE, FALSE, 0)) :
            w \in Asked(c) \cup {x.wait : x \in hist[c].cancelled}}
           \cup {Frame("msg", "", Msg("chat", "", UserEvent, "", FALSE, "nil",
                                      FALSE, FALSE, 0))}

NextLate ==
    \E c \in Conns :
       \/ startReader(c, LateFrames(c))
       \/ handleMessage_wait(c)
       \/ handleMessage_switch(c)
       \/ tryNamespace(c)
       \/ replyConnect(c)
       \/ Write(c, Reader)
       \/ Close(c, Reader)
       \/ StartAsk(c, "t1", AskMsgs, {"live"})
       \/ Cancel(c, "t1")
       \/ handleMessage_send(c, "t1")
       \/ Ask(c, "t1")
       \/ Write(c, "t1")
       \/ StartClose(c, "t2")
       \/ \E t \in Tasks :
            \/ Close(c, t)
            \/ Finish(c, t)

SpecLate == Init /\ [][NextLate]_vars

(***************************************************************************)
(* A caller that calls DisconnectAll with a context that is never           *)
(* cancelled, while the peer connects the namespaces, sends an event and    *)
(* answers the asks.                                                       *)
(***************************************************************************)
\* the peer's answers to the asks that wait, each with one of the errors
Replies(c, errs) ==
    {Frame("msg", "", [L(c, t).amsg EXCEPT !.Err = e, !.IsLocal = FALSE]) :
       t \in {x \in Tasks : L(c, x).amsg.wait \in Asked(c)}, e \in errs}

\* the peer sends its handshake frame first
DisconnectAllFrames(c) ==
    IF acknowledged[c] = 0
    THEN {Frame("ack", "c1", NoMsg)}
    ELSE Replies(c, {"nil"})
           \cup {Frame("msg", "", Msg(n, "", OnNamespaceConnect, GenWait(Peer(c), 1),
                                      FALSE, "nil", FALSE, FALSE, 0)) : n \in Declared}
           \cup {Frame("msg", "", Msg("chat", "", UserEvent, "", FALSE, "nil",
                                      FALSE, FALSE, 0))}

NextDisconnectAll ==
    \E c \in Conns :
       \/ startReader(c, DisconnectAllFrames(c))
       \/ handleMessage(c)
       \/ replyConnect(c)
       \/ Write(c, Reader)
       \/ Close(c, Reader)
       \/ StartDisconnectAll(c, "t1")
       \/ DisconnectAll(c, "t1")
       \/ askDisconnect(c, "t1")
       \/ handleMessage_send(c, "t1")
       \/ Ask_closed(c, "t1")
       \/ Ask_reg(c, "t1")
       \/ Ask_wrote(c, "t1")
       \/ Ask_got(c, "t1")
       \/ Write(c, "t1")
       \/ Close(c, "t1")
       \/ Finish(c, "t1")

SpecDisconnectAll == Init /\ [][NextDisconnectAll]_vars

(***************************************************************************)
(* The client asks to disconnect "chat" and the server answers: on the      *)
(* client a caller of askDisconnect and the peer's answers, on the server   *)
(* the peer's disconnect requests.  The peer connects "chat" first.         *)
(***************************************************************************)
\* the peer sends its handshake frame first
DisconnectFrames(c) ==
    IF acknowledged[c] = 0
    THEN {Frame("ack", "c1", NoMsg)}
    ELSE {Frame("msg", "", Msg("chat", "", OnNamespaceConnect, GenWait(Peer(c), 1),
                               FALSE, "nil", FALSE, FALSE, 0))}
           \cup IF IsClient(c)
                THEN Replies(c, {"nil", "err"})
                ELSE {Frame("msg", "", Msg("chat", "", OnNamespaceDisconnect,
                                           GenWait(Peer(c), 1), FALSE, "nil",
                                           FALSE, FALSE, 0))}

NextDisconnect ==
    \E c \in Conns :
       \/ startReader(c, DisconnectFrames(c))
       \/ handleMessage_wait(c)
       \/ handleMessage_switch(c)
       \/ replyConnect(c)
       \/ replyDisconnect_look(c)
       \/ replyDisconnect_server(c)
       \/ replyDisconnect_delete(c)
       \/ Close(c, Reader)
       \/ IsClient(c) /\ StartAskDisconnect(c, "t1", {"chat"})
       \/ askDisconnect(c, "t1")
       \/ handleMessage_send(c, "t1")
       \/ Ask_closed(c, "t1")
       \/ Ask_reg(c, "t1")
       \/ Ask_wrote(c, "t1")
       \/ Ask_got(c, "t1")
       \/ Close(c, "t1")
       \/ Finish(c, "t1")
       \/ \E t \in Threads :
            \/ Write_closed(c, t)
            \/ Write_sock(c, t)
            \/ Write_fail(c, t)

SpecDisconnect == Init /\ [][NextDisconnect]_vars

(***************************************************************************)
(* Both Conns of a connection, with the socket between them: what one       *)
(* writes the other reads, in order.  The client has sent "ack" when it     *)
(* was dialed.  A caller on the client Connects to "chat" and may cancel;   *)
(* the server answers.                                                     *)
(***************************************************************************)
InitPair ==
    /\ active = Conns
    /\ id = [c \in Conns |-> IF IsClient(c) THEN "" ELSE "c1"]
    /\ acknowledged = [c \in Conns |-> 0]
    /\ closed = [c \in Conns |-> 0]
    /\ connectedNamespaces = [c \in Conns |-> [n \in NSNames |-> 0]]
    /\ nsMu = [c \in Conns |-> ""]
    /\ waitingMessages = [c \in Conns |-> EmptyMap]
    /\ closeChClosed = [c \in Conns |-> 0]
    /\ netClosed = [c \in Conns |-> 0]
    /\ nsconns = [c \in Conns |-> <<>>]
    /\ nextCh = [c \in Conns |-> 1]
    /\ th = [c \in Conns |-> [t \in Threads |->
               IF t = Reader THEN [NewThread EXCEPT !.pc = "startReader"]
               ELSE NewThread]]
    /\ queue = [c \in Conns |-> <<>>]
    /\ nread = [c \in Conns |-> 0]
    /\ calls = [c \in Conns |-> 0]
    /\ net = [c \in Conns |-> IF IsClient(c) THEN <<>>
                              ELSE <<Frame("ack", "", NoMsg)>>]
    /\ hist = [c \in Conns |-> NoHist]

\* net after c's WriteText of frame f with outcome o
Sent(c, f, o) ==
    IF o = "ok" THEN [net EXCEPT ![Peer(c)] = Append(@, f)] ELSE net

\* line 175: ReadText returns the next frame the peer wrote
read_net(c) ==
    /\ At(c, Reader, "read")
    /\ netClosed[c] = 0
    /\ nread[c] < MaxFrames
    /\ net[c] # <<>>
    /\ SetTh(c, Reader,
         [L(c, Reader) EXCEPT !.pc = "gotFrame",
                              !.frame = [Head(net[c]) EXCEPT !.m.seq = nread[c] + 1]])
    /\ nread' = Set(nread, c, nread[c] + 1)
    /\ net' = Set(net, c, Tail(net[c]))
    /\ UNCHANGED <<flagVars, nsVars, askVars, active, calls, queue, hist>>

\* line 185: the client answers ack_ok
ack_okPeer(c) ==
    /\ At(c, Reader, "ack_ok")
    /\ \E o \in WriteTextOutcomes(c) :
         /\ hist' = Set(hist, c, Wrote(hist[c], c, o))
         /\ net' = Sent(c, Frame("ack", "_ok", NoMsg), o)
    /\ SetTh(c, Reader, [L(c, Reader) EXCEPT !.pc = "handleQueue"])
    /\ UNCHANGED <<flagVars, nsVars, askVars, active, nread, calls, queue>>

\* line 189: the server answers "ack" with "ack" and the id
ack_replyPeer(c) ==
    /\ At(c, Reader, "ack_reply")
    /\ \E o \in WriteTextOutcomes(c) :
         /\ hist' = Set(hist, c, Wrote(hist[c], c, o))
         /\ net' = Sent(c, Frame("ack", id[c], NoMsg), o)
    /\ SetTh(c, Reader, [L(c, Reader) EXCEPT !.pc = "read", !.frame = NoFrame])
    /\ UNCHANGED <<flagVars, nsVars, askVars, active, nread, calls, queue>>

\* lines 517-525: the message goes to the peer
Write_sockPeer(c, t) ==
    /\ At(c, t, "Write_sock")
    /\ \E o \in WriteTextOutcomes(c) :
         /\ hist' = Set(hist, c, Wrote(hist[c], c, o))
         /\ net' = Sent(c, Frame("msg", "", L(c, t).msg), o)
         /\ SetTh(c, t,
              LET r == [L(c, t) EXCEPT !.wt = @ + 1]
              IN CASE o = "ok" -> WriteRet(t, r, TRUE)
                   [] o = "closeErr" -> Call(r, "Close", "Write_fail")
                   [] OTHER -> WriteRet(t, r, FALSE))
    /\ UNCHANGED <<flagVars, nsVars, askVars, active, nread, calls, queue>>

NextPair ==
    \E c \in Conns :
       \/ startReader_closed(c)
       \/ read_net(c)
       \/ read_err(c)
       \/ gotFrame(c)
       \/ ack_id(c)
       \/ ack_store(c)
       \/ ack_okPeer(c)
       \/ ack_replyPeer(c)
       \/ handleQueue(c)
       \/ loop_handled(c)
       \/ handleMessage_wait(c)
       \/ handleMessage_switch(c)
       \/ replyConnect(c)
       \/ IsClient(c) /\ StartConnect(c, "t1", {"chat"})
       \/ Cancel(c, "t1")
       \/ handleMessage_send(c, "t1")
       \/ Connect(c, "t1")
       \/ Ask(c, "t1")
       \/ Finish(c, "t1")
       \/ \E t \in {Reader, "t1"} :
            \/ Write_closed(c, t)
            \/ Write_sockPeer(c, t)
            \/ Write_fail(c, t)
            \/ Close(c, t)

SpecPair == InitPair /\ [][NextPair]_vars

(***************************************************************************)
(* C1: a frame whose wait token is a key of waitingMessages when           *)
(* handleMessage looks it up is not dispatched: it reaches neither          *)
(* replyConnect, replyDisconnect, the room replies nor an event handler.    *)
(* It is sent on the channel stored under its token, no two Asks share a    *)
(* channel, and the Ask that receives it is the one whose message carries   *)
(* its token.                                                              *)
(***************************************************************************)
C1_ReplyNotDispatched ==
    \A c \in Conns :
       /\ hist[c].matched \cap hist[c].dispatched = {}
       /\ hist[c].delivered \cap hist[c].dispatched = {}
       /\ hist[c].delivered \subseteq hist[c].matched
       /\ \A t \in Tasks :
             L(c, t).pc = "Ask_got" =>
                /\ L(c, t).rcv.wait = L(c, t).amsg.wait
                /\ L(c, t).rcv.seq \in hist[c].delivered
       /\ \A t, u \in Tasks :
             (t # u /\ L(c, t).ach # 0) => L(c, t).ach # L(c, u).ach

\* a frame with the connect event and the token of a waiting Ask was received
\* by that Ask, and another frame with this Conn's token went to the switch
C1_Witness ==
    \E c \in Conns, t \in Tasks :
       /\ L(c, t).pc = "Ask_got"
       /\ L(c, t).rcv.Event = OnNamespaceConnect
       /\ L(c, t).rcv.seq \in hist[c].matched
       /\ hist[c].dispatched # {}

(***************************************************************************)
(* C2: no frame is passed to handleMessage before acknowledged was stored   *)
(* 1; the frames are passed in the order they arrived; a frame that was     *)
(* queued is passed before any frame that arrived after it; and when the    *)
(* reader, acknowledged, reads its next frame, the queue is empty and every *)
(* frame that was queued has been passed.                                  *)
(***************************************************************************)
C2_QueueHandledInOrder ==
    \A c \in Conns :
       LET h == hist[c].handled
       IN /\ Len(h) > 0 => hist[c].latches > 0
          /\ \A i, j \in 1..Len(h) : i < j => h[i] < h[j]
          /\ \A q \in hist[c].queued, j \in 1..Len(h) :
                q < h[j] => \E i \in 1..j : h[i] = q
          /\ (L(c, Reader).pc = "read" /\ acknowledged[c] = 1) =>
                /\ queue[c] = <<>>
                /\ hist[c].queued \subseteq {h[i] : i \in 1..Len(h)}

\* two frames were queued and both were handled after the handshake frame
C2_Witness ==
    \E c \in Conns :
       /\ Len(hist[c].handled) = 2
       /\ \A i \in 1..2 : hist[c].handled[i] \in hist[c].queued
       /\ L(c, Reader).pc = "read"

(***************************************************************************)
(* C3: closeCh is closed at most once and the net connection is shut down   *)
(* at most once, so one Close at most runs the close sequence; the forced   *)
(* local disconnect is fired at most once for a namespace, and once the     *)
(* close sequence is past its namespaces, exactly once for each namespace   *)
(* that was connected when it took the lock and for no other.               *)
(***************************************************************************)
C3_CloseSequenceOnce ==
    \A c \in Conns :
       /\ closeChClosed[c] <= 1
       /\ netClosed[c] <= 1
       /\ closeChClosed[c] = closed[c]
       /\ Cardinality({t \in Threads :
                         L(c, t).pc \in {"Close_ns", "Close_wm", "Close_ack",
                                         "Close_net"}}) <= 1
       /\ \A n \in NSNames : hist[c].forced[n] <= 1
       /\ hist[c].cleared =>
             \A n \in NSNames : hist[c].forced[n] = 1 <=> n \in hist[c].atClose
       /\ ~hist[c].cleared =>
             (netClosed[c] = 0 /\
                \A n \in NSNames :
                   hist[c].forced[n] = 1 =>
                      \E t \in Threads : L(c, t).pc = "Close_wm")

\* both callers and the reader have called Close, with two namespaces connected
\* when the first of them took the lock
C3_Witness ==
    \E c \in Conns :
       /\ netClosed[c] = 1
       /\ hist[c].atClose = Declared
       /\ \A t \in Tasks : L(c, t).pc = "done" /\ L(c, t).op = "Close"
       /\ L(c, Reader).pc = "rd_done"

(***************************************************************************)
(* C4: no WriteText succeeds on a Conn whose closed is 1.                   *)
(***************************************************************************)
C4_NoWriteAfterClosed == \A c \in Conns : ~hist[c].wroteClosed

(***************************************************************************)
(* C5: a Write of a message that is no connect and no disconnect event,     *)
(* which finds no NSConn under the message's namespace, returns false and   *)
(* has called WriteText zero times.                                        *)
(***************************************************************************)
C5_UnconnectedNamespaceRefused ==
    \A c \in Conns, t \in Tasks :
       (/\ L(c, t).pc = "done"
        /\ L(c, t).op = "Write"
        /\ ~isConnect(L(c, t).msg)
        /\ ~isDisconnect(L(c, t).msg)
        /\ L(c, t).wns = 0)
       => (~L(c, t).wret /\ L(c, t).wt = 0)

\* "chat" is connected and a Write to "news" has returned
C5_Witness ==
    \E c \in Conns, t \in Tasks :
       /\ L(c, t).pc = "done"
       /\ L(c, t).op = "Write"
       /\ L(c, t).msg = OutMsg("news", "", UserEvent)
       /\ L(c, t).wns = 0
       /\ connectedNamespaces[c]["chat"] # 0
       /\ closed[c] = 0

\* the room of m is not a room of the NSConn of m's namespace
NotJoined(c, m) ==
    \/ connectedNamespaces[c][m.Namespace] = 0
    \/ m.Room \notin nsconns[c][connectedNamespaces[c][m.Namespace]].rooms

(***************************************************************************)
(* C6 as stated: a Write of a message with a room, that is no room-join and *)
(* no room-left event, returns false and has called WriteText zero times    *)
(* when the room is not a room of the NSConn of the message's namespace.    *)
(***************************************************************************)
C6_RoomNotJoinedRefused ==
    \A c \in Conns, t \in Tasks :
       (/\ L(c, t).pc = "done"
        /\ L(c, t).op = "Write"
        /\ L(c, t).msg.Room # ""
        /\ ~isRoomJoin(L(c, t).msg)
        /\ ~isRoomLeft(L(c, t).msg)
        /\ L(c, t).wroom # "in"
        /\ NotJoined(c, L(c, t).msg))
       => (~L(c, t).wret /\ L(c, t).wt = 0)

(***************************************************************************)
(* C6 amended: a Write of a message with a room, that is no connect, no     *)
(* disconnect, no room-join and no room-left event, which does not find the *)
(* room among the rooms of the NSConn of the message's namespace, returns   *)
(* false and has called WriteText zero times.                              *)
(***************************************************************************)
C6_RoomNotJoinedRefusedButConnect ==
    \A c \in Conns, t \in Tasks :
       (/\ L(c, t).pc = "done"
        /\ L(c, t).op = "Write"
        /\ L(c, t).msg.Room # ""
        /\ ~isRoomJoin(L(c, t).msg)
        /\ ~isRoomLeft(L(c, t).msg)
        /\ ~isConnect(L(c, t).msg)
        /\ ~isDisconnect(L(c, t).msg)
        /\ L(c, t).wroom # "in")
       => (~L(c, t).wret /\ L(c, t).wt = 0)

\* "chat" is connected, the room is not joined, and the Write has returned
C6_Witness ==
    \E c \in Conns, t \in Tasks :
       /\ L(c, t).pc = "done"
       /\ L(c, t).op = "Write"
       /\ L(c, t).msg = OutMsg("chat", "r1", UserEvent)
       /\ L(c, t).wns # 0
       /\ L(c, t).wroom = "out"
       /\ closed[c] = 0

(***************************************************************************)
(* C7: a Connect that finds an NSConn under its namespace returns that      *)
(* NSConn and no error, and has called WriteText zero times, registered no  *)
(* waiting entry, fired no handler and put nothing in connectedNamespaces.  *)
(***************************************************************************)
C7_ConnectIdempotent ==
    \A c \in Conns, t \in Tasks :
       (/\ L(c, t).pc = "done"
        /\ L(c, t).op = "Connect"
        /\ L(c, t).found # 0)
       => /\ L(c, t).ns = L(c, t).found
          /\ L(c, t).cerr = "nil"
          /\ L(c, t).wt = 0
          /\ L(c, t).regs = 0
          /\ L(c, t).fires = 0
          /\ L(c, t).ins = 0

\* the second Connect of the caller has found the namespace connected
C7_Witness ==
    \E c \in Conns, t \in Tasks :
       /\ L(c, t).pc = "done"
       /\ L(c, t).op = "Connect"
       /\ L(c, t).found # 0
       /\ calls[c] = 2
       /\ connectedNamespaces[c][L(c, t).namespace] = L(c, t).found

(***************************************************************************)
(* C8: an Ask that has written and leaves its select without a reply        *)
(* returns its context's error, which takes a cancelled context; and once   *)
(* Close has dropped the waiting entries, waitingMessages holds no entry    *)
(* with the channel of an Ask that returned so.                            *)
(***************************************************************************)
C8_CancelledAskReturnsCtxErr ==
    \A c \in Conns :
       /\ \A t \in Tasks :
             (L(c, t).pc = "done" /\ L(c, t).op = "Ask") =>
                /\ (L(c, t).wret /\ L(c, t).rcv = NoMsg) => L(c, t).aerr = "ctx.Err()"
                /\ L(c, t).aerr = "ctx.Err()" =>
                      L(c, t).ctx = "done" /\ L(c, t).rcv = NoMsg
       /\ hist[c].cleared =>
             \A e \in hist[c].cancelled :
                ~(e.wait \in DOMAIN waitingMessages[c]
                    /\ waitingMessages[c][e.wait] = e.ch)

\* an Ask returned its context's error and Close has dropped the entries
C8_Witness ==
    \E c \in Conns, t \in Tasks :
       /\ L(c, t).pc = "done"
       /\ L(c, t).op = "Ask"
       /\ L(c, t).aerr = "ctx.Err()"
       /\ hist[c].cleared
       /\ netClosed[c] = 1

(***************************************************************************)
(* C9: no event other than OnNamespaceConnect is fired on an NSConn whose   *)
(* local OnNamespaceConnect handler has not returned nil.                   *)
(***************************************************************************)
C9_ConnectHandlerFirst == \A c \in Conns : ~hist[c].early

\* OnNamespaceConnected, a user event and a disconnect were fired on NSConns
C9_Witness ==
    \E c \in Conns :
       /\ {OnNamespaceConnected, UserEvent, OnNamespaceDisconnect} \subseteq hist[c].events
       /\ \E t \in Tasks : L(c, t).op = "Connect" /\ L(c, t).ins = 1

(***************************************************************************)
(* C10: c.id is assigned once.                                             *)
(***************************************************************************)
C10_IdAssignedOnce == \A c \in Conns : hist[c].idSets <= 1

(***************************************************************************)
(* C11: whenever handleMessage has returned false, which it does when a    *)
(* user event handler returned a manual-close error and the reply with the *)
(* error was written, the reader loop is at its return (lines 214-216),     *)
(* from where the deferred Close closes the Conn.  This is to hold for      *)
(* every inbound event handleMessage dispatches, those of the pre-ack       *)
(* queue included.                                                         *)
(***************************************************************************)
C11_ManualCloseEndsReader ==
    \A c \in Conns :
       ~L(c, Reader).hret => L(c, Reader).pc = "loop_handled"

(***************************************************************************)
(* C12: when tryNamespace finds no NSConn for the namespace of an inbound   *)
(* user event or room request, the response carrying ErrBadNamespace that   *)
(* it hands to Write is written to the socket: the Write of that response   *)
(* goes on from its namespace test to WriteText.                            *)
(***************************************************************************)
C12_BadNamespaceAnswered ==
    [][\A c \in Conns :
         (/\ At(c, Reader, "Write_ns")
          /\ L(c, Reader).msg.Err = "ErrBadNamespace"
          /\ th'[c][Reader] # th[c][Reader])
         => th'[c][Reader].pc = "Write_sock"]_vars

(***************************************************************************)
(* C13: a Connect whose ask the peer answered with ErrBadNamespace returns  *)
(* ErrBadNamespace, has fired no handler and inserted nothing, and leaves   *)
(* the namespace out of connectedNamespaces.  A Connect for a namespace     *)
(* that is not declared locally returns ErrBadNamespace with no WriteText   *)
(* call and no waiting entry registered.  The replying side, asked for a    *)
(* namespace it has not declared, makes no NSConn (so fires no handler),    *)
(* inserts nothing and answers with ErrBadNamespace.                        *)
(***************************************************************************)
C13_UndeclaredNamespaceRefused ==
    \A c \in Conns :
       /\ \A t \in Tasks :
            LET r == L(c, t)
            IN (r.op = "Connect" /\ r.pc = "done") =>
                 /\ r.rcv.Err = "ErrBadNamespace" =>
                      /\ r.cerr = "ErrBadNamespace"
                      /\ r.fires = 0
                      /\ r.ins = 0
                      /\ connectedNamespaces[c][r.namespace] = 0
                 /\ r.namespace \notin Declared =>
                      /\ r.cerr = "ErrBadNamespace"
                      /\ r.wt = 0
                      /\ r.regs = 0
                      /\ r.fires = 0
                      /\ r.ins = 0
       /\ \A n \in NSNames \ Declared : connectedNamespaces[c][n] = 0
       /\ \A i \in 1..Len(nsconns[c]) : nsconns[c][i].namespace \in Declared
       /\ LET r == L(c, Reader)
          IN (/\ r.pc = "Write_sock"
              /\ r.msg.Event = OnNamespaceConnect
              /\ r.msg.Namespace \notin Declared)
             => r.msg.Err = "ErrBadNamespace"

\* the peer refused "chat", this Conn refused "admin" to its own caller and
\* is answering the peer's request for "admin"
C13_Witness ==
    \E c \in Conns :
       /\ L(c, "t1").pc = "done"
       /\ L(c, "t1").rcv.Err = "ErrBadNamespace"
       /\ L(c, "t1").cerr = "ErrBadNamespace"
       /\ L(c, "t2").pc = "done"
       /\ L(c, "t2").namespace = "admin"
       /\ L(c, "t2").cerr = "ErrBadNamespace"
       /\ L(c, Reader).pc = "Write_sock"
       /\ L(c, Reader).msg.Namespace = "admin"
       /\ L(c, Reader).msg.Err = "ErrBadNamespace"

(***************************************************************************)
(* C14: an Ask with a context whose deadline is more than a second past     *)
(* has, when it returns, made no WriteText call and registered no waiting   *)
(* entry; it has returned DeadlineExceeded, unless the Conn was closed      *)
(* already when the Ask looked (then the error is the CloseError of line    *)
(* 530).  While the Ask runs it is at no place of the code past the         *)
(* deadline test.                                                          *)
(***************************************************************************)
C14_ExpiredAskWritesNothing ==
    \A c \in Conns : \A t \in Tasks :
       LET r == L(c, t)
       IN (r.op = "Ask" /\ r.ctx = "expired") =>
            /\ r.pc \in {"Ask", "done"}
            /\ r.wt = 0
            /\ r.regs = 0
            /\ r.pc = "done" =>
                 \/ r.aerr = "DeadlineExceeded"
                 \/ r.aerr = "CloseError(ErrWrite)" /\ closed[c] > 0

\* an Ask on an open Conn has returned DeadlineExceeded
C14_Witness ==
    \E c \in Conns :
       /\ L(c, "t1").op = "Ask"
       /\ L(c, "t1").ctx = "expired"
       /\ L(c, "t1").pc = "done"
       /\ L(c, "t1").aerr = "DeadlineExceeded"
       /\ closed[c] = 0
       /\ acknowledged[c] = 1
       /\ waitingMessages[c] = EmptyMap

(***************************************************************************)
(* C15: a reply that carries the wait token of an Ask that has returned     *)
(* its context's error does not block the reader.  When handleMessage       *)
(* takes up such a reply, with the entry of that Ask still in               *)
(* waitingMessages, it does not go to the send on the channel of that Ask   *)
(* (line 226), where no receiver is left and the frames that follow are     *)
(* never read.                                                             *)
(***************************************************************************)
C15_LateReplyDoesNotBlock ==
    [][\A c \in Conns :
         (/\ At(c, Reader, "handleMessage")
          /\ \E x \in hist[c].cancelled :
               /\ x.wait = L(c, Reader).cur.wait
               /\ x.wait \in DOMAIN waitingMessages[c]
               /\ waitingMessages[c][x.wait] = x.ch)
         => th'[c][Reader].pc # "handleMessage_send"]_vars

(***************************************************************************)
(* C16: holding the namespaces write lock across its asks, DisconnectAll    *)
(* does not deadlock with the reader.  On an open Conn, a DisconnectAll     *)
(* whose context is never cancelled is never waiting in the select of its   *)
(* Ask, with the lock held, while the reader waits for that lock: there     *)
(* only the reader could bring the reply, and only DisconnectAll could      *)
(* release the lock.                                                       *)
(***************************************************************************)
C16_DisconnectAllNoDeadlock ==
    \A c \in Conns : \A t \in Tasks :
       ~(/\ closed[c] = 0
         /\ L(c, t).op = "DisconnectAll"
         /\ At(c, t, "Ask_select")
         /\ L(c, t).ctx = "live"
         /\ nsMu[c] = t
         /\ WaitsForLock(c, Reader))

(***************************************************************************)
(* C17: when a Connect of this Conn and a connect request of the peer for   *)
(* the same namespace race, one NSConn is inserted for the namespace and    *)
(* no inserted NSConn is overwritten by another: a step never replaces an   *)
(* NSConn that is in connectedNamespaces by a different NSConn.             *)
(***************************************************************************)
C17_InsertedNeverOverwritten ==
    [][\A c \in Conns : \A n \in NSNames :
         connectedNamespaces[c][n] # 0 =>
           connectedNamespaces'[c][n] \in {0, connectedNamespaces[c][n]}]_vars

(***************************************************************************)
(* C18: the server's OnNamespaceDisconnect handler can refuse a disconnect. *)
(* On the server, the reply to a disconnect request that is about to be     *)
(* written carries an error only with the namespace still in                *)
(* connectedNamespaces, and carries none only with the entry deleted.  On   *)
(* the client, an askDisconnect whose ask was answered with an error has    *)
(* returned that error, has fired no handler and has left the NSConn in     *)
(* connectedNamespaces (where it stays unless the Conn is closed).          *)
(***************************************************************************)
C18_ServerHandlerRefusesDisconnect ==
    /\ LET c == "server"
           r == L(c, Reader)
       IN (/\ r.pc \in {"Write", "Write_sock"}
           /\ r.msg.Event = OnNamespaceDisconnect)
          => IF r.msg.Err # "nil"
             THEN connectedNamespaces[c][r.msg.Namespace] # 0
             ELSE connectedNamespaces[c][r.msg.Namespace] = 0
    /\ LET c == "client"
       IN \A t \in Tasks :
            LET r == L(c, t)
            IN (r.op = "askDisconnect" /\ r.pc = "done" /\ r.rcv.Err # "nil") =>
                 /\ r.derr = r.rcv.Err
                 /\ r.fires = 0
                 /\ closed[c] = 0 => connectedNamespaces[c][r.amsg.Namespace] = r.ns

\* the client's askDisconnect has returned the server's error and "chat" is
\* still connected
C18_Witness ==
    /\ L("client", "t1").op = "askDisconnect"
    /\ L("client", "t1").pc = "done"
    /\ L("client", "t1").rcv.Err = "err"
    /\ L("client", "t1").derr = "err"
    /\ L("client", "t1").wt = 1
    /\ closed["client"] = 0
    /\ connectedNamespaces["client"]["chat"] # 0

\* the Conn is open and nothing of it is under way: no call runs, the reader
\* waits for a frame, no frame is on its way to the Conn or in its queue
AtRest(c) ==
    /\ closed[c] = 0
    /\ net[c] = <<>>
    /\ queue[c] = <<>>
    /\ L(c, Reader).pc = "read"
    /\ \A t \in Tasks : L(c, t).pc \in {"idle", "done"}

(***************************************************************************)
(* C19: with both Conns open and at rest, a namespace is in the client's    *)
(* connectedNamespaces if and only if it is in the server's.                *)
(***************************************************************************)
C19_PeersAgreeAtRest ==
    (AtRest("client") /\ AtRest("server")) =>
       \A n \in NSNames :
          connectedNamespaces["client"][n] # 0 <=> connectedNamespaces["server"][n] # 0

(***************************************************************************)
(* C20: once the Close that won has returned, which it does when it has     *)
(* closed the net connection (line 597), connectedNamespaces and            *)
(* waitingMessages are empty, whatever calls were under way when the Conn   *)
(* was closed.                                                             *)
(***************************************************************************)
C20_ClosedConnStaysEmpty ==
    \A c \in Conns :
       netClosed[c] > 0 =>
          /\ Connected(c) = {}
          /\ waitingMessages[c] = EmptyMap

=============================================================================
